---- MODULE Spec2Model ----
(***************************************************************************)
(* Model of najmabad/healthy_life_expectancy:                              *)
(*   src/longevity/estimates.py    LongevityEstimator (prevalence table,   *)
(*                                 U/P matrices, reward moments, gini)     *)
(*   src/longevity/data_manager.py DataManager.process_deceased_age and    *)
(*                                 DataManager.create_panel_dataset        *)
(*                                                                         *)
(* Numbers.  Floating point values are modelled by exact rationals <<n,d>> *)
(* in lowest terms with d > 0; NaN is the pair <<0,0>>.  Probabilities are *)
(* kept on the grid k/Grid.  Matrices are functions with the 0-based       *)
(* indices of the source: M[i][j] is numpy's M[i, j].                      *)
(***************************************************************************)
EXTENDS Integers, Sequences, FiniteSets, TLC

VARIABLES
    df,         \* the observation table handed to LongevityEstimator (self.df)
    panel_df,   \* the panel table handed to LongevityEstimator (self.panel_df, same object)
    trained,    \* what LogisticRegression.fit returns on this panel (library outcome)
    self,       \* the estimator's own fields, or NotBuilt before __init__
    fits,       \* number of completed self.clf.fit calls
    op,         \* the last operation called on the estimator
    ret,        \* what that operation returned or raised
    gy,         \* gini: the input vector y
    gt,         \* gini: the vector after a transfer between two elements
    gres,       \* gini: the values gini returned, for gy and then for gt
    raw,        \* data manager: the rows before process_deceased_age
    prepared,   \* data manager: the rows create_panel_dataset is given
    panel,      \* data manager: the rows create_panel_dataset returned
    pc          \* data manager: position in the pipeline

vars == <<df, panel_df, trained, self, fits, op, ret, gy, gt, gres, raw, prepared, panel, pc>>
estVars == <<df, panel_df, trained, self, fits, op, ret>>
giniVars == <<gy, gt, gres>>
dmVars == <<raw, prepared, panel, pc>>

(***************************************************************************)
(* Bounds of the exploration                                               *)
(***************************************************************************)
AgeSpan == 3        \* ages AgeLo .. AgeLo + AgeSpan appear in observation tables
Res == 2            \* probabilities live on the grid k / (2 * Res)
MaxFits == 2        \* classifier fits explored on one estimator
MaxLen == 3         \* length of a vector given to gini
MaxVal == 4         \* largest entry of a vector given to gini
MaxWaves == 2       \* interviews of one respondent

(***************************************************************************)
(* Program constants                                                       *)
(***************************************************************************)
PlusAge == 90           \* `if age != 90` in compute_UP
PrevalenceCutoff == 88  \* `df['is_aged'] < 88` in compute_disability_prevalence_by_age
ExpOverflow == 710      \* np.exp(x) is inf from x = 710 on: sigmoid(-710) = 0.0
OneAbsorbs == 37        \* 1 + np.exp(-x) rounds to 1.0 from x = 37 on: sigmoid(37) = 1.0
AliveAbsorbs == 38      \* 1 - sigmoid(x) rounds to 1.0 from x = -38 down

Grid == 2 * Res
AgeLo == PrevalenceCutoff - 1
Ages == AgeLo .. (AgeLo + AgeSpan)
Deciles == {0, 1}
Genders == {"male", "female"}

(***************************************************************************)
(* Floats as exact rationals <<n, d>>, with NaN, and with Tiny for the     *)
(* positive floats so small that a sum with a float of ordinary size       *)
(* rounds back to that float (1 - Tiny = 1, 1 + Tiny = 1)                  *)
(***************************************************************************)
NaN == <<0, 0>>
IsNaN(a) == a = NaN
Tiny == <<1, 0>>
IsTiny(a) == a[2] = 0 /\ a[1] # 0

Abs(x) == IF x < 0 THEN -x ELSE x

RECURSIVE GCD(_, _)
GCD(a, b) == IF b = 0 THEN a ELSE GCD(b, a % b)

Norm(n, d) ==
    IF d = 0 THEN NaN
    ELSE LET g == GCD(Abs(n), Abs(d))
             s == IF d < 0 THEN -1 ELSE 1
         IN  <<s * (n \div g), s * (d \div g)>>

Rat(n) == <<n, 1>>
Zero == Rat(0)
One == Rat(1)

RAdd(a, b) ==
    IF IsNaN(a) \/ IsNaN(b) THEN NaN
    ELSE IF IsTiny(a) /\ IsTiny(b) THEN (IF a = b THEN a ELSE Zero)
    ELSE IF IsTiny(a) THEN (IF b[1] = 0 THEN a ELSE b)
    ELSE IF IsTiny(b) THEN (IF a[1] = 0 THEN b ELSE a)
    ELSE IF a[1] = 0 THEN b
    ELSE IF b[1] = 0 THEN a
    ELSE IF a[2] = 1 /\ b[2] = 1 THEN <<a[1] + b[1], 1>>
    ELSE LET g == GCD(a[2], b[2])
         IN  Norm(a[1] * (b[2] \div g) + b[1] * (a[2] \div g), (a[2] \div g) * b[2])

RNeg(a) == IF IsNaN(a) THEN NaN ELSE <<-a[1], a[2]>>
RSub(a, b) == RAdd(a, RNeg(b))

RMul(a, b) ==
    IF IsNaN(a) \/ IsNaN(b) THEN NaN
    ELSE IF a[1] = 0 \/ b[1] = 0 THEN Zero
    ELSE IF IsTiny(a) /\ IsTiny(b) THEN Zero
    ELSE IF IsTiny(a) THEN (IF b[1] > 0 THEN a ELSE RNeg(a))
    ELSE IF IsTiny(b) THEN (IF a[1] > 0 THEN b ELSE RNeg(b))
    ELSE IF a = One THEN b
    ELSE IF b = One THEN a
    ELSE LET g1 == GCD(Abs(a[1]), b[2])
             g2 == GCD(Abs(b[1]), a[2])
             h1 == IF g1 = 0 THEN 1 ELSE g1
             h2 == IF g2 = 0 THEN 1 ELSE g2
         IN  Norm((a[1] \div h1) * (b[1] \div h2), (a[2] \div h2) * (b[2] \div h1))

\* a / b for a divisor of ordinary size (a count, 2, a pivot of I - U)
RDiv(a, b) ==
    IF IsNaN(a) \/ IsNaN(b) THEN NaN
    ELSE RMul(a, IF b[1] < 0 THEN <<-b[2], -b[1]>> ELSE <<b[2], b[1]>>)

\* comparisons of two numbers that are not NaN
RLess(a, b) ==
    IF IsTiny(a) /\ IsTiny(b) THEN a[1] < b[1]
    ELSE IF IsTiny(a) THEN (IF a[1] > 0 THEN b[1] > 0 ELSE b[1] >= 0)
    ELSE IF IsTiny(b) THEN (IF b[1] > 0 THEN a[1] <= 0 ELSE a[1] < 0)
    ELSE a[1] * b[2] < b[1] * a[2]
RLeq(a, b) == a = b \/ RLess(a, b)

(***************************************************************************)
(* Dense matrices: a matrix is the tuple of its rows, a row the tuple of   *)
(* its entries.  El(M, i, j) is numpy's M[i, j] (0-based).                 *)
(***************************************************************************)
RECURSIVE Tab(_, _)
\* the tuple <<F(0), ..., F(n - 1)>>
Tab(F(_), n) == IF n = 0 THEN <<>> ELSE Append(Tab(F, n - 1), F(n - 1))

Mat(r, c, F(_, _)) == Tab(LAMBDA i : Tab(LAMBDA j : F(i, j), c), r)
El(M, i, j) == M[i + 1][j + 1]
NRows(M) == Len(M)
NCols(M) == IF Len(M) = 0 THEN 0 ELSE Len(M[1])
Shape(M) == <<NRows(M), NCols(M)>>

RECURSIVE RSum(_, _, _)
\* sum of F(k) for k = lo .. hi, every term added (NaN included), as numpy sums
RSum(F(_), lo, hi) == IF hi < lo THEN Zero ELSE RAdd(RSum(F, lo, hi - 1), F(hi))

Transpose(M) == Mat(NCols(M), NRows(M), LAMBDA i, j : El(M, j, i))
\* np.multiply(A, B): the elementwise product
Hadamard(A, B) == Mat(NRows(A), NCols(A), LAMBDA i, j : RMul(El(A, i, j), El(B, i, j)))
\* A @ B
MatMul(A, B) ==
    Mat(NRows(A), NCols(B),
        LAMBDA i, j : RSum(LAMBDA k : RMul(El(A, i, k), El(B, k, j)), 0, NCols(A) - 1))
MatAdd(A, B) == Mat(NRows(A), NCols(A), LAMBDA i, j : RAdd(El(A, i, j), El(B, i, j)))
MatSub(A, B) == Mat(NRows(A), NCols(A), LAMBDA i, j : RSub(El(A, i, j), El(B, i, j)))
Scale(c, A) == Mat(NRows(A), NCols(A), LAMBDA i, j : RMul(c, El(A, i, j)))
Eye(n) == Mat(n, n, LAMBDA i, j : IF i = j THEN One ELSE Zero)
\* M[:r, :c]
Slice(M, r, c) == Mat(r, c, LAMBDA i, j : El(M, i, j))

RAbs(a) == IF a[1] < 0 THEN RNeg(a) ELSE a

\* the row of the largest |M[r, k]| among the rows k .. n - 1 (the first of
\* them on a tie), as LAPACK's partial pivoting picks it
PivotRow(M, k, n) ==
    CHOOSE p \in k .. n - 1 :
        \A r \in k .. n - 1 :
            \/ RLess(RAbs(El(M, r, k)), RAbs(El(M, p, k)))
            \/ (RAbs(El(M, r, k)) = RAbs(El(M, p, k)) /\ p <= r)

SwapRows(M, a, b) ==
    Tab(LAMBDA i : IF i = a THEN M[b + 1] ELSE IF i = b THEN M[a + 1] ELSE M[i + 1], NRows(M))

RECURSIVE Eliminate(_, _, _)
\* Gauss-Jordan elimination of the n x 2n matrix A from column k on;
\* <<>> when a column has no non-zero pivot (the matrix is singular)
Eliminate(A, k, n) ==
    IF k = n THEN A
    ELSE LET B == SwapRows(A, k, PivotRow(A, k, n))
             pivot == El(B, k, k)
         IN  IF pivot = Zero THEN <<>>
             ELSE Eliminate(
                      Mat(n, 2 * n,
                          LAMBDA i, j :
                              IF i = k THEN RDiv(El(B, k, j), pivot)
                              ELSE IF El(B, i, k) = Zero THEN El(B, i, j)
                              ELSE RSub(El(B, i, j),
                                        RMul(El(B, i, k), RDiv(El(B, k, j), pivot)))),
                      k + 1, n)

\* np.linalg.inv(M): the inverse, or <<>> where numpy raises LinAlgError
Inverse(M) ==
    LET n == NRows(M)
        R == Eliminate(Mat(n, 2 * n, LAMBDA i, j : IF j < n THEN El(M, i, j)
                                                  ELSE IF j - n = i THEN One ELSE Zero),
                       0, n)
    IN  IF R = <<>> /\ n > 0 THEN <<>> ELSE Mat(n, n, LAMBDA i, j : El(R, i, j + n))

(***************************************************************************)
(* sigmoid(x) = 1 / (1 + np.exp(-x)) on the probability grid.              *)
(* Exactly 1/2 at 0; exactly 0 once np.exp(-x) overflows to inf; Tiny      *)
(* while 1 - sigmoid(x) still rounds to 1; exactly 1 once 1 + np.exp(-x)   *)
(* rounds to 1; the values in between are represented by the grid point    *)
(* next to 0 (x < 0) or next to 1 (x > 0).                                 *)
(***************************************************************************)
sigmoid(x) ==
    IF x <= -ExpOverflow THEN Zero
    ELSE IF x <= -AliveAbsorbs THEN Tiny
    ELSE IF x < 0 THEN Norm(1, Grid)
    ELSE IF x = 0 THEN Norm(Res, Grid)
    ELSE IF x < OneAbsorbs THEN Norm(Grid - 1, Grid)
    ELSE One

(***************************************************************************)
(* Inputs of the estimator                                                 *)
(***************************************************************************)
\* rows of the observation table (the columns the estimator reads); mergeid
\* is never null, so a pivot count is a number of rows.  The rows are those of
\* respondents alive at the interview (is_aged is the age at the interview);
\* income decile and disability vary on the rows the prevalence table reads
\* (is_aged below the cutoff) and are fixed on the others.
ObservationRow(a, d, x) == [age |-> a, is_aged |-> a, income_dcl |-> d, disabled |-> x]
RowUniverse ==
    {ObservationRow(a, d, x) : a \in {b \in Ages : b < PrevalenceCutoff}, d \in Deciles, x \in {0, 1}}
        \cup {ObservationRow(a, 0, 0) : a \in Ages}

\* the tables of one or two rows: every age range, every state of a cell
SmallTables == {{r1, r2} : r1 \in RowUniverse, r2 \in RowUniverse}

\* a second respondent with the answers of row r
SecondRespondent(r) == r @@ [mergeid |-> 2]
\* a cell with one non-disabled respondent and n disabled ones, n = 1 or 2
PopulatedCell(n) ==
    {ObservationRow(AgeLo, 0, 0), ObservationRow(AgeLo, 0, 1)}
        \cup (IF n = 2 THEN {SecondRespondent(ObservationRow(AgeLo, 0, 1))} ELSE {})
\* the tables whose prevalence is defined at every age: a populated cell at
\* the youngest age and a respondent at any age
PopulatedTables ==
    {PopulatedCell(n) \cup {ObservationRow(a, 0, 0)} : n \in {1, 2}, a \in Ages}

ObservationTables == SmallTables \cup PopulatedTables

PanelRow(a, y) == [age |-> a, income_dcl |-> 0, gender_num |-> 0, y |-> y]
PanelTables ==
    { <<PanelRow(AgeLo, 0), PanelRow(AgeLo + 1, 1)>>,
      <<PanelRow(AgeLo, 0), PanelRow(AgeLo + 1, 0)>> }

\* coef_ and intercept_ a fit may end with; fitting the same panel again
\* ends with the same ones
FitOutcomes ==
    { [known |-> TRUE, coef |-> <<1, 0, 0>>, intercept |-> -PlusAge],
      [known |-> TRUE, coef |-> <<-1, 0, 0>>, intercept |-> PlusAge - 1] }
NotTrained == [known |-> FALSE, coef |-> <<0, 0, 0>>, intercept |-> 0]
FitResults(t) == IF t.known THEN {t} ELSE FitOutcomes

NoCoeffs == [kind |-> "None", age |-> 0, income_dcl |-> 0, gender_num |-> 0]
Coeffs(a, i, g) == [kind |-> "dict", age |-> a, income_dcl |-> i, gender_num |-> g]
\* no coefficients; p_dead = 0.5 at every age; p_dead Tiny or 0.0 by age and
\* decile; p_dead = 0.0 below age 90, 0.5 at 90 and 1.0 above in decile 1
CoeffInputs ==
    { NoCoeffs, Coeffs(0, 0, 0), Coeffs(-8, 24, 0), Coeffs(ExpOverflow, -ExpOverflow * PlusAge, 0) }

\* `not self.coeffs` is false for a non-empty dict only
Truthy(c) == c.kind = "dict"

NotBuilt == [built |-> FALSE]
Returned(v) == [exc |-> "None", val |-> v]
Raised(e) == [exc |-> e, val |-> <<>>]

(***************************************************************************)
(* PrevalenceTable: compute_disability_prevalence_by_age                   *)
(***************************************************************************)
\* pd.pivot_table(rows, index is_aged, columns income_dcl, values mergeid, count)
PivotIndex(rows) == {r.is_aged : r \in rows}
PivotColumns(rows) == {r.income_dcl : r \in rows}
PivotCount(rows, a, c) == Cardinality({r \in rows : r.is_aged = a /\ r.income_dcl = c})
\* a cell of the pivot: the count, NaN where the cell holds no row
PivotCell(rows, a, c) ==
    IF a \in PivotIndex(rows) /\ c \in PivotColumns(rows) /\ PivotCount(rows, a, c) > 0
    THEN Rat(PivotCount(rows, a, c)) ELSE NaN

DisabledRows(t) == {r \in t : r.disabled = 1 /\ r.is_aged < PrevalenceCutoff}
NonDisabledRows(t) == {r \in t : r.disabled = 0 /\ r.is_aged < PrevalenceCutoff}

\* .replace(np.nan, 0) on the numerator pivot, inside its own index and columns
NumeratorCell(t, a, c) ==
    IF a \in PivotIndex(DisabledRows(t)) /\ c \in PivotColumns(DisabledRows(t))
    THEN (IF IsNaN(PivotCell(DisabledRows(t), a, c)) THEN Zero
          ELSE PivotCell(DisabledRows(t), a, c))
    ELSE NaN

\* numerator / denominator, aligned on the union of both indexes and columns;
\* .to_dict() is column -> (index -> value)
compute_disability_prevalence_by_age(t) ==
    [c \in PivotColumns(DisabledRows(t)) \cup PivotColumns(NonDisabledRows(t)) |->
        [a \in PivotIndex(DisabledRows(t)) \cup PivotIndex(NonDisabledRows(t)) |->
            IF IsNaN(NumeratorCell(t, a, c)) \/ IsNaN(PivotCell(NonDisabledRows(t), a, c))
            THEN NaN
            ELSE RDiv(NumeratorCell(t, a, c), PivotCell(NonDisabledRows(t), a, c))]]

MinAge(t) == CHOOSE a \in {r.age : r \in t} : \A r \in t : a <= r.age
MaxAge(t) == CHOOSE a \in {r.age : r \in t} : \A r \in t : a >= r.age

\* the fields __init__ sets
NewEstimator(t, gender, income_dcl, coeffs) ==
    [ built |-> TRUE,
      disability_prevalence |-> compute_disability_prevalence_by_age(t),
      start_age |-> MinAge(t),
      end_age |-> MaxAge(t) + 1,
      diff |-> (MaxAge(t) + 1) - MinAge(t),
      gender |-> gender,
      income_dcl |-> income_dcl,
      income_buckets |-> Cardinality({r.income_dcl : r \in t}),
      coeffs |-> coeffs,
      clf |-> [fitted |-> FALSE, coef |-> <<0, 0, 0>>, intercept |-> 0] ]

\* self.panel_df.loc[:, 'age_2'] = self.panel_df.age ** 2
WithAge2(p) == [k \in DOMAIN p |-> p[k] @@ ("age_2" :> p[k].age * p[k].age)]

\* __init__
Construct(gender, income_dcl, coeffs) ==
    /\ ~self.built
    /\ panel_df' = WithAge2(panel_df)
    /\ self' = NewEstimator(df, gender, income_dcl, coeffs)
    /\ op' = "__init__"
    /\ ret' = Returned(<<>>)
    /\ UNCHANGED <<df, trained, fits>>

(***************************************************************************)
(* prevalence(age)                                                         *)
(***************************************************************************)
\* dict.get(key, 0)
DictGet(d, key, default) == IF key \in DOMAIN d THEN d[key] ELSE default

\* raises KeyError when the table has no column for the estimator's decile
PrevalenceRaises(s) == s.income_dcl \notin DOMAIN s.disability_prevalence

\* ps[int(age - self.start_age)] for an age of range(start_age, end_age)
prevalence(s, age) ==
    LET ps == [a \in s.start_age .. s.end_age - 1 |->
                  DictGet(s.disability_prevalence[s.income_dcl], a, Zero)]
    IN  ps[age]

Prevalence(age) ==
    /\ self.built
    /\ age \in self.start_age .. self.end_age - 1
    /\ op' = "prevalence"
    /\ ret' = IF PrevalenceRaises(self) THEN Raised("KeyError")
              ELSE Returned([age |-> age, value |-> prevalence(self, age)])
    /\ UNCHANGED <<df, panel_df, trained, self, fits>>

(***************************************************************************)
(* generate_prevalence_matrix                                              *)
(***************************************************************************)
\* m: prevalence(age) for every age of the range, then a 0
PrevalenceVector(s) ==
    Tab(LAMBDA j : IF j < s.diff THEN prevalence(s, s.start_age + j) ELSE Zero, s.diff + 1)

\* 1 - np.vstack([[m] * (len(m) - 1), [i / 2 for i in m]])
generate_prevalence_matrix(s) ==
    LET m == PrevalenceVector(s)
    IN  Mat(s.diff + 1, s.diff + 1,
            LAMBDA i, j : IF i < s.diff THEN RSub(One, m[j + 1])
                          ELSE RSub(One, RDiv(m[j + 1], Rat(2))))

(***************************************************************************)
(* MortalityModel and compute_UP                                           *)
(***************************************************************************)
GenderNum(s) == IF s.gender = "female" THEN 1 ELSE 0

\* StandardScaler(with_std=False, with_mean=False).transform
ScalerTransform(row) == row

\* lr.predict_proba(row)[0]: <<p_alive, p_dead>> of the fitted classifier
PredictProba(clf, row) ==
    LET p == sigmoid(clf.intercept + clf.coef[1] * row[1] + clf.coef[2] * row[2]
                     + clf.coef[3] * row[3])
    IN  <<RSub(One, p), p>>

\* <<p_alive, p_dead>> at an age, by either branch of `if not self.coeffs`
Probabilities(s, age) ==
    IF ~Truthy(s.coeffs)
    THEN PredictProba(s.clf, ScalerTransform(<<age, s.income_dcl, GenderNum(s)>>))
    ELSE LET p_dead == sigmoid(s.coeffs.age * age + s.coeffs.income_dcl * s.income_dcl
                               + s.coeffs.gender_num * GenderNum(s))
         IN  <<RSub(One, p_dead), p_dead>>

\* np.hstack([np.zeros((diff + 1, diff)), [0, ..., 0, 1] as a column])
InitialP(s) ==
    Mat(s.diff + 1, s.diff + 1, LAMBDA i, j : IF i = s.diff /\ j = s.diff THEN One ELSE Zero)

\* M[i, j] = v
SetEntry(M, i, j, v) == [M EXCEPT ![i + 1][j + 1] = v]

\* UPStep with the self-loop placed at the final age of the range instead of age 90
UPStep_SelfLoopAtFinalAge(s, P, age) ==
    IF age # s.end_age - 1
    THEN SetEntry(SetEntry(P, age - (s.start_age - 1), age - s.start_age, Probabilities(s, age)[1]),
                  s.diff, age - s.start_age, Probabilities(s, age)[2])
    ELSE SetEntry(SetEntry(P, s.diff - 1, s.diff - 1, Probabilities(s, age)[1]),
                  s.diff, s.diff - 1, Probabilities(s, age)[2])

\* the body of `for age in range(self.start_age, self.end_age)`
UPStep(s, P, age) ==
    IF age # PlusAge
    THEN SetEntry(SetEntry(P, age - (s.start_age - 1), age - s.start_age, Probabilities(s, age)[1]),
                  s.diff, age - s.start_age, Probabilities(s, age)[2])
    ELSE SetEntry(SetEntry(P, s.diff - 1, s.diff - 1, Probabilities(s, age)[1]),
                  s.diff, s.diff - 1, Probabilities(s, age)[2])

RECURSIVE UPLoop(_, _, _)
\* P after the iterations for start_age .. age
UPLoop(s, P, age) ==
    IF age < s.start_age THEN P ELSE UPStep(s, UPLoop(s, P, age - 1), age)

\* BuildUP with U = P[:diff], the columns not cut
BuildUP_RowsOnly(s) ==
    LET P == UPLoop(s, InitialP(s), s.end_age - 1)
    IN  [U |-> Slice(P, s.diff, s.diff + 1), P |-> P]

\* the matrices compute_UP returns for an estimator whose classifier is ready
BuildUP(s) ==
    LET P == UPLoop(s, InitialP(s), s.end_age - 1)
    IN  [U |-> Slice(P, s.diff, s.diff), P |-> P]

\* self.clf.fit(...): raises ValueError on a label column with one class only
Classes(p) == {p[k].y : k \in DOMAIN p}
FitRaises(p) == Cardinality(Classes(p)) < 2
\* the estimator once self.clf.fit returned
Fitted(s, outcome) ==
    [s EXCEPT !.clf = [fitted |-> TRUE, coef |-> outcome.coef, intercept |-> outcome.intercept]]

\* compute_UP
ComputeUP ==
    /\ self.built
    /\ op' = "compute_UP"
    /\ IF Truthy(self.coeffs)
       THEN /\ ret' = Returned(BuildUP(self))
            /\ UNCHANGED <<self, fits, trained>>
       ELSE /\ fits < MaxFits
            /\ IF FitRaises(panel_df)
               THEN /\ ret' = Raised("ValueError")
                    /\ UNCHANGED <<self, fits, trained>>
               ELSE \E outcome \in FitResults(trained) :
                        /\ trained' = outcome
                        /\ self' = Fitted(self, outcome)
                        /\ fits' = fits + 1
                        /\ ret' = Returned(BuildUP(self'))
    /\ UNCHANGED <<df, panel_df>>

(***************************************************************************)
(* MomentEngine: compute_moments and compute_lifetime_estimates            *)
(***************************************************************************)
\* np.hstack([np.eye(diff), np.zeros((diff, 1))])
ZMatrix(diff) == Mat(diff, diff + 1, LAMBDA i, j : IF i = j THEN One ELSE Zero)

\* TotalLifeReward with a whole year counted for the year of death
TotalLifeReward_FullYearOfDeath(diff) ==
    Mat(diff + 1, diff + 1, LAMBDA i, j : IF j = diff THEN Zero ELSE One)

\* the reward matrix of the healthy_life_only = False branch
TotalLifeReward(diff) ==
    Mat(diff + 1, diff + 1,
        LAMBDA i, j : IF j = diff THEN Zero ELSE IF i < diff THEN One ELSE Norm(1, 2))

Ones(n) == Mat(n, 1, LAMBDA i, j : One)

\* np.linalg.inv(np.eye(diff) - U) raises LinAlgError on a singular matrix
InvRaises(U, diff) == Inverse(MatSub(Eye(diff), U)) = <<>>

\* <<rho_1, rho_2, rho_3>> for a non-singular I - U
compute_moments(diff, U, P, prevalence_matrix, healthy_life_only) ==
    LET Z == ZMatrix(diff)
        N == Inverse(MatSub(Eye(diff), U))
        R == IF healthy_life_only THEN prevalence_matrix ELSE TotalLifeReward(diff)
        ones == Ones(diff + 1)
        NT == Transpose(N)
        base == MatMul(MatMul(Z, Transpose(Hadamard(P, R))), ones)
        R_tilde == MatMul(MatMul(Z, R), Transpose(Z))
        UR == Transpose(Hadamard(U, R_tilde))
        rho_1 == MatMul(NT, base)
        rho_2 == MatMul(NT, MatAdd(base, Scale(Rat(2), MatMul(UR, rho_1))))
        rho_3 == MatMul(NT, MatAdd(MatAdd(base, Scale(Rat(3), MatMul(UR, rho_1))),
                                   Scale(Rat(3), MatMul(UR, rho_2))))
    IN  <<rho_1, rho_2, rho_3>>

\* np.array(v).squeeze() of a column
Squeeze(v) == Tab(LAMBDA i : El(v, i, 0), NRows(v))

\* np.sqrt(x) is NaN for a NaN or negative x; otherwise the root of radicand
Sqrt(x) == [radicand |-> x, nan |-> IsNaN(x) \/ x[1] < 0]

\* the <<mu, std>> compute_lifetime_estimates returns from the three moments
LifetimeResult(moments) ==
    LET mu == Squeeze(moments[1])
        m2 == Squeeze(moments[2])
    IN  [mu |-> mu,
         std |-> Tab(LAMBDA i : Sqrt(RSub(m2[i + 1], RMul(mu[i + 1], mu[i + 1]))), Len(mu))]

\* what compute_lifetime_estimates returns or raises once compute_UP returned UP
MomentsOutcome(s, UP, healthy_life_only) ==
    IF InvRaises(UP.U, s.diff) THEN Raised("LinAlgError")
    ELSE Returned([healthy_life_only |-> healthy_life_only,
                   result |-> LifetimeResult(
                       compute_moments(s.diff, UP.U, UP.P, generate_prevalence_matrix(s),
                                       healthy_life_only))])

\* compute_lifetime_estimates(healthy_life_only)
ComputeLifetimeEstimates(healthy_life_only) ==
    /\ self.built
    /\ op' = "compute_lifetime_estimates"
    /\ IF PrevalenceRaises(self)
       THEN /\ ret' = Raised("KeyError")
            /\ UNCHANGED <<self, fits, trained>>
       ELSE IF Truthy(self.coeffs)
       THEN /\ ret' = MomentsOutcome(self, BuildUP(self), healthy_life_only)
            /\ UNCHANGED <<self, fits, trained>>
       ELSE /\ fits < MaxFits
            /\ IF FitRaises(panel_df)
               THEN /\ ret' = Raised("ValueError")
                    /\ UNCHANGED <<self, fits, trained>>
               ELSE \E outcome \in FitResults(trained) :
                        /\ trained' = outcome
                        /\ self' = Fitted(self, outcome)
                        /\ fits' = fits + 1
                        /\ ret' = MomentsOutcome(self', BuildUP(self'), healthy_life_only)
    /\ UNCHANGED <<df, panel_df>>

(***************************************************************************)
(* The estimator as a state machine                                        *)
(***************************************************************************)
GiniIdle == gy = <<>> /\ gt = <<>> /\ gres = <<>>
DmIdle == raw = {} /\ prepared = {} /\ panel = <<>> /\ pc = "idle"

Init ==
    /\ df \in ObservationTables
    /\ panel_df \in PanelTables
    /\ trained = NotTrained
    /\ self = NotBuilt
    /\ fits = 0
    /\ op = "none"
    /\ ret = Returned(<<>>)
    /\ GiniIdle
    /\ DmIdle

Next ==
    \/ \E g \in Genders, d \in Deciles, c \in CoeffInputs :
           Construct(g, d, c) /\ UNCHANGED <<giniVars, dmVars>>
    \/ \E a \in Ages : Prevalence(a) /\ UNCHANGED <<giniVars, dmVars>>
    \/ ComputeUP /\ UNCHANGED <<giniVars, dmVars>>
    \/ \E h \in BOOLEAN : ComputeLifetimeEstimates(h) /\ UNCHANGED <<giniVars, dmVars>>

Spec == Init /\ [][Next]_vars

(***************************************************************************)
(* Properties of the estimator                                             *)
(***************************************************************************)
ModeledAges(s) == s.start_age .. s.end_age - 1
FinalAge(s) == s.end_age - 1
p_alive(s, age) == Probabilities(s, age)[1]
p_dead(s, age) == Probabilities(s, age)[2]
ColumnSum(M, j) == RSum(LAMBDA i : El(M, i, j), 0, NRows(M) - 1)
WithoutLastRow(M) == Mat(NRows(M) - 1, NCols(M), LAMBDA i, j : El(M, i, j))

ReturnedUP == self.built /\ op = "compute_UP" /\ ret.exc = "None"
\* compute_lifetime_estimates got as far as compute_moments
ReachedMoments ==
    self.built /\ op = "compute_lifetime_estimates" /\ ret.exc \in {"None", "LinAlgError"}
ReturnedEstimates == self.built /\ op = "compute_lifetime_estimates" /\ ret.exc = "None"

\* C1 (as claimed): whenever every modeled age has p_dead strictly between 0
\* and 1, every column of the P returned by compute_UP sums to exactly 1.
C1_ColumnsSumToOne ==
    (ReturnedUP /\ \A a \in ModeledAges(self) : p_dead(self, a) \notin {Zero, One})
        => \A j \in 0 .. NCols(ret.val.P) - 1 : ColumnSum(ret.val.P, j) = One

\* C2 (as claimed): every age but the final one has p_alive on the row of the
\* next age and p_dead on the absorbing row of its column; the final age,
\* whatever its value, has p_alive as a self-loop at (diff-1, diff-1) and
\* p_dead on the absorbing row of column diff-1.
C2_ColumnLayout ==
    ReturnedUP =>
        /\ \A a \in ModeledAges(self) \ {FinalAge(self)} :
               /\ El(ret.val.P, a - self.start_age + 1, a - self.start_age) = p_alive(self, a)
               /\ El(ret.val.P, self.diff, a - self.start_age) = p_dead(self, a)
        /\ El(ret.val.P, self.diff - 1, self.diff - 1) = p_alive(self, FinalAge(self))
        /\ El(ret.val.P, self.diff, self.diff - 1) = p_dead(self, FinalAge(self))

\* C3 (as claimed): U is diff x diff, P is (diff+1) x diff, and U is P with
\* the absorbing row removed.
C3_ShapesAsClaimed ==
    ReturnedUP =>
        /\ Shape(ret.val.U) = <<self.diff, self.diff>>
        /\ Shape(ret.val.P) = <<self.diff + 1, self.diff>>
        /\ ret.val.U = WithoutLastRow(ret.val.P)

\* C3 (amended): U is diff x diff and P is (diff+1) x (diff+1); P's extra row
\* is the absorbing row, its extra column the absorbing state's own column
\* (0, ..., 0, 1); U is P with that row and that column removed.
C3_Shapes ==
    ReturnedUP =>
        /\ Shape(ret.val.U) = <<self.diff, self.diff>>
        /\ Shape(ret.val.P) = <<self.diff + 1, self.diff + 1>>
        /\ \A i \in 0 .. self.diff :
               El(ret.val.P, i, self.diff) = IF i = self.diff THEN One ELSE Zero
        /\ \A i \in 0 .. self.diff - 1 : \A j \in 0 .. self.diff - 1 :
               El(ret.val.U, i, j) = El(ret.val.P, i, j)

C3_Witness == ReturnedUP /\ self.diff >= 2

\* C4 (as claimed): N exists whenever every modeled age has p_dead > 0, and
\* the inversion fails whenever p_dead = 0 at some modeled age.
C4_SingularAsClaimed ==
    ReachedMoments =>
        /\ (\A a \in ModeledAges(self) : p_dead(self, a) # Zero) => ret.exc = "None"
        /\ (\E a \in ModeledAges(self) : p_dead(self, a) = Zero) => ret.exc = "LinAlgError"

\* C4 (amended): the inversion fails exactly when age 90 is a modeled age and
\* its survival probability 1 - p_dead, the self-loop entry, evaluates to 1
\* (p_dead is 0 there, or positive and too small to change 1); in every other
\* case, p_dead = 0 at other ages included, N exists and the moments are
\* returned.
C4_Singular ==
    ReachedMoments =>
        (ret.exc = "LinAlgError"
            <=> (PlusAge \in ModeledAges(self) /\ p_alive(self, PlusAge) = One))

C4_Witness ==
    /\ ReachedMoments
    /\ ret.exc = "LinAlgError"
    /\ \A a \in ModeledAges(self) : p_dead(self, a) # Zero

AllZero(c) == c.kind = "dict" /\ c.age = 0 /\ c.income_dcl = 0 /\ c.gender_num = 0
OldestMean == ret.val.result.mu[self.diff]
TotalLifeAllZero == ReturnedEstimates /\ AllZero(self.coeffs) /\ ~ret.val.healthy_life_only

\* C5 (as claimed): with all-zero coefficients the total-life mean at the
\* oldest modeled age is exactly 0.5.
C5_OldestMeanHalf == TotalLifeAllZero => OldestMean = Norm(1, 2)

\* C5 (amended): with all-zero coefficients the total-life mean at the oldest
\* modeled age is exactly 1.5 when age 90 is a modeled age, and exactly 0.25
\* when it is not.
C5_OldestMean ==
    TotalLifeAllZero =>
        OldestMean = IF PlusAge \in ModeledAges(self) THEN Norm(3, 2) ELSE Norm(1, 4)

C5_Witness == TotalLifeAllZero /\ PlusAge \in ModeledAges(self) /\ self.diff >= 2

\* the (age, income decile) cell has a defined ratio: a non-disabled count
CellDefined(t, age, dcl) ==
    \E r \in NonDisabledRows(t) : r.is_aged = age /\ r.income_dcl = dcl

\* C6 (as claimed): prevalence(age) never raises, never returns NaN, and
\* returns 0 for a cell without a defined ratio.
C6_MissingCellIsZero ==
    (self.built /\ op = "prevalence") =>
        /\ ret.exc = "None"
        /\ ~IsNaN(ret.val.value)
        /\ ~CellDefined(df, ret.val.age, self.income_dcl) => ret.val.value = Zero

\* compute_lifetime_estimates returned the healthy-life estimates, every
\* prevalence of the modeled ages is a ratio >= 0 and every death probability
\* lies strictly between 0 and 1
ValidRates(s) ==
    /\ \A a \in ModeledAges(s) :
           ~IsNaN(prevalence(s, a)) /\ RLeq(Zero, prevalence(s, a))
    /\ \A a \in ModeledAges(s) : p_dead(s, a) \notin {Zero, One}
\* the mean compute_lifetime_estimates(False) returns on the same estimator
TotalLifeMean(s) ==
    LifetimeResult(compute_moments(s.diff, BuildUP(s).U, BuildUP(s).P,
                                   generate_prevalence_matrix(s), FALSE)).mu

\* C12: with prevalences >= 0 and death probabilities in (0,1), the mean of
\* healthy years is at most the mean of total years at every starting age.
C12_HealthyAtMostTotal ==
    (ReturnedEstimates /\ ret.val.healthy_life_only /\ ValidRates(self)) =>
        \A i \in 1 .. self.diff :
            RLeq(ret.val.result.mu[i], TotalLifeMean(self)[i])

\* C13: with prevalences >= 0 and death probabilities in (0,1), the variance
\* rho_2 - rho_1^2 is non-negative at every starting age, for healthy and for
\* total life, so the standard deviation is a real number.
C13_VarianceNonNegative ==
    (ReturnedEstimates /\ ValidRates(self)) =>
        \A i \in 1 .. self.diff :
            /\ ~ret.val.result.std[i].nan
            /\ RLeq(Zero, ret.val.result.std[i].radicand)

\* C7 (as claimed): without a coefficient set the classifier is fitted once
\* and later calls reuse the fit; with a coefficient set it is never fitted.
C7_FittedOnce == self.built => (IF Truthy(self.coeffs) THEN fits = 0 ELSE fits <= 1)

\* C8 (as claimed): no step of the estimator, its construction included,
\* changes the observation table or the panel table it was given.
C8_TablesUnchanged == [][df' = df /\ panel_df' = panel_df]_vars

(***************************************************************************)
(* InequalityMetrics: gini.  The entries of a vector are whole numbers of  *)
(* the 0.0000001 that gini adds to every element.                          *)
(***************************************************************************)
Epsilon == 1

RECURSIVE SeqMin(_)
SeqMin(y) ==
    IF Len(y) = 1 THEN y[1]
    ELSE LET m == SeqMin(Tail(y)) IN IF y[1] < m THEN y[1] ELSE m

RECURSIVE SeqSum(_)
SeqSum(y) == IF y = <<>> THEN 0 ELSE y[1] + SeqSum(Tail(y))

RECURSIVE Insert(_, _)
\* x put into the ascending sequence s
Insert(x, s) ==
    IF s = <<>> THEN <<x>>
    ELSE IF x <= s[1] THEN <<x>> \o s
    ELSE <<s[1]>> \o Insert(x, Tail(s))

RECURSIVE Sort(_)
\* np.sort(y)
Sort(y) == IF y = <<>> THEN <<>> ELSE Insert(y[1], Sort(Tail(y)))

\* if np.amin(y) < 0: y -= np.amin(y)
Shifted(y) == IF SeqMin(y) < 0 THEN [k \in DOMAIN y |-> y[k] - SeqMin(y)] ELSE y

\* gini without the sort
gini_Unsorted(y) ==
    LET z == [k \in DOMAIN y |-> Shifted(y)[k] + Epsilon]
        n == Len(z)
    IN  Norm(SeqSum([index \in 1 .. n |-> (2 * index - n - 1) * z[index]]), n * SeqSum(z))

\* gini(y) for a vector of one element or more
gini(y) ==
    LET z == Sort([k \in DOMAIN y |-> Shifted(y)[k] + Epsilon])
        n == Len(z)
    IN  Norm(SeqSum([index \in 1 .. n |-> (2 * index - n - 1) * z[index]]), n * SeqSum(z))

GiniInputs == UNION {[1 .. n -> -1 .. MaxVal] : n \in 1 .. MaxLen}

\* d moved from element j to element i
Transfer(y, i, j, d) ==
    [k \in DOMAIN y |-> IF k = i THEN y[k] + d ELSE IF k = j THEN y[k] - d ELSE y[k]]

GiniCall ==
    /\ gy # <<>>
    /\ gres = <<>>
    /\ gres' = <<gini(gy)>>
    /\ UNCHANGED <<gy, gt>>

\* gini of the vector after a transfer from a richer to a poorer element that
\* does not reorder the two
GiniAfterTransfer(i, j, d) ==
    /\ Len(gres) = 1
    /\ i \in DOMAIN gy /\ j \in DOMAIN gy
    /\ gy[i] < gy[j]
    /\ d > 0
    /\ gy[i] + d <= gy[j] - d
    /\ gt' = Transfer(gy, i, j, d)
    /\ gres' = <<gres[1], gini(gt')>>
    /\ UNCHANGED gy

EstIdle ==
    /\ df = {} /\ panel_df = <<>> /\ trained = NotTrained /\ self = NotBuilt
    /\ fits = 0 /\ op = "none" /\ ret = Returned(<<>>)

InitGini ==
    /\ gy \in GiniInputs
    /\ gt = <<>>
    /\ gres = <<>>
    /\ EstIdle
    /\ DmIdle

NextGini ==
    \/ GiniCall /\ UNCHANGED <<estVars, dmVars>>
    \/ \E i \in 1 .. MaxLen, j \in 1 .. MaxLen, d \in 1 .. MaxVal :
           GiniAfterTransfer(i, j, d) /\ UNCHANGED <<estVars, dmVars>>

SpecGini == InitGini /\ [][NextGini]_vars

\* C9: for a vector without negative entries, a transfer from a richer to a
\* poorer element that does not reorder the two never increases gini.
C9_TransferNeverIncreasesGini ==
    (Len(gres) = 2 /\ \A k \in DOMAIN gy : gy[k] >= 0) => RLeq(gres[2], gres[1])

C9_Witness ==
    /\ Len(gres) = 2
    /\ \A k \in DOMAIN gy : gy[k] >= 0
    /\ Len(gy) = 3
    /\ RLess(gres[2], gres[1])

(***************************************************************************)
(* DataManager: process_deceased_age, process_age_of_death and             *)
(* create_panel_dataset.  A row's age is kept in half years (age2 = 2 *    *)
(* age); deceased_age is "Not applicable", a refusal, or an age in years.  *)
(***************************************************************************)
NotApplicableAge == 99999   \* deceased_age_int of a respondent who is alive

People == {1, 2}
InterviewAges2 == 140 .. 143                  \* 70, 70.5, 71, 71.5 years
DeathAge(n) == [kind |-> "age", value |-> n]
NotApplicable == [kind |-> "Not applicable", value |-> 0]
Refusal == [kind |-> "Refusal", value |-> 0]
DeceasedAges == {NotApplicable, Refusal} \cup {DeathAge(n) : n \in 70 .. 73}

\* int(round(age)): Python rounds a half to the even neighbour
age_integer(age2) ==
    IF age2 % 2 = 0 THEN age2 \div 2
    ELSE IF ((age2 - 1) \div 2) % 2 = 0 THEN (age2 - 1) \div 2 ELSE (age2 + 1) \div 2

deceased_age_int(d) == IF d.kind = "Not applicable" THEN NotApplicableAge ELSE d.value

RawRow(m, age2, d) == [mergeid |-> m, age2 |-> age2, deceased_age |-> d]

RECURSIVE WavesUpTo(_, _)
\* the sets of at most k interview ages
WavesUpTo(S, k) ==
    IF k = 0 THEN {{}}
    ELSE LET T == WavesUpTo(S, k - 1) IN T \cup {t \cup {x} : t \in T, x \in S}

\* every respondent has one deceased_age (merged in by mergeid) and a set of interviews
RawTables ==
    { UNION {{RawRow(m, a, d[m]) : a \in w[m]} : m \in People} :
        d \in [People -> DeceasedAges], w \in [People -> WavesUpTo(InterviewAges2, MaxWaves)] }

\* process_deceased_age: drops refusals, adds deceased_age_int and age_int,
\* drops the rows whose age at death is below the age at interview
process_deceased_age(rows) ==
    { [mergeid |-> r.mergeid, age2 |-> r.age2, deceased_age |-> r.deceased_age,
       deceased_age_int |-> deceased_age_int(r.deceased_age),
       age_int |-> age_integer(r.age2)] :
        r \in {q \in rows : /\ q.deceased_age.kind # "Refusal"
                            /\ deceased_age_int(q.deceased_age) >= age_integer(q.age2)} }

\* process_age_of_death: adds is_dead and is_aged
process_age_of_death(rows) ==
    { r @@ [is_dead |-> IF r.deceased_age.kind = "Not applicable" THEN 0 ELSE 1,
            is_aged |-> IF r.deceased_age.kind = "Not applicable" THEN r.age_int
                        ELSE r.deceased_age.value] : r \in rows }

\* the rows of one respondent by ascending age
RECURSIVE History(_)
History(rows) ==
    IF rows = {} THEN <<>>
    ELSE LET first == CHOOSE r \in rows : \A q \in rows : r.age2 <= q.age2
         IN  <<first>> \o History(rows \ {first})

\* the row added one year before the death
ImputedRow(row) ==
    [row EXCEPT !.age2 = 2 * (row.deceased_age.value - 1),
                !.age_int = row.deceased_age.value - 1,
                !.y = 1]

\* LastRowOfDead keeping the last row beside the imputed one in every case
LastRowOfDead_AlwaysImputes(row) ==
    IF row.deceased_age.value = row.age_int + 1 THEN <<[row EXCEPT !.y = 1], ImputedRow(row)>>
    ELSE IF row.deceased_age.value = row.age_int THEN <<ImputedRow(row)>>
    ELSE <<row, ImputedRow(row)>>

\* what the loop body appends for the last row of a dead respondent
LastRowOfDead(row) ==
    IF row.deceased_age.value = row.age_int + 1 THEN <<[row EXCEPT !.y = 1]>>
    ELSE IF row.deceased_age.value = row.age_int THEN <<ImputedRow(row)>>
    ELSE <<row, ImputedRow(row)>>

RECURSIVE HistoryRows(_, _)
\* what the inner loop appends for the rows i .. tot of a history
HistoryRows(h, i) ==
    IF i > Len(h) THEN <<>>
    ELSE (IF i < Len(h) \/ h[i].is_dead = 0 THEN <<h[i]>> ELSE LastRowOfDead(h[i]))
             \o HistoryRows(h, i + 1)

RECURSIVE NewRows(_, _)
\* new_rows after the groups of the respondents in ms, in mergeid order
NewRows(rows, ms) ==
    IF ms = {} THEN <<>>
    ELSE LET m == CHOOSE x \in ms : \A z \in ms : x <= z
         IN  HistoryRows(History({r \in rows : r.mergeid = m}), 1) \o NewRows(rows, ms \ {m})

PanelBefore(a, b) == a.mergeid < b.mergeid \/ (a.mergeid = b.mergeid /\ a.age2 <= b.age2)

RECURSIVE InsertRow(_, _)
\* x put behind the rows of s that do not come after it
InsertRow(x, s) ==
    IF s = <<>> THEN <<x>>
    ELSE IF PanelBefore(s[1], x) THEN <<s[1]>> \o InsertRow(x, Tail(s))
    ELSE <<x>> \o s

RECURSIVE SortValues(_, _)
\* sort_values(['mergeid', 'age']) of the first n rows: a stable sort
SortValues(s, n) == IF n = 0 THEN <<>> ELSE InsertRow(s[n], SortValues(s, n - 1))

\* create_panel_dataset(df)
create_panel_dataset(rows) ==
    LET withY == {r @@ [y |-> 0] : r \in rows}
        new_rows == NewRows(withY, {r.mergeid : r \in withY})
    IN  SortValues(new_rows, Len(new_rows))

ProcessDeceasedAge ==
    /\ pc = "raw"
    /\ prepared' = process_deceased_age(raw)
    /\ pc' = "deceased_age"
    /\ UNCHANGED <<raw, panel>>

ProcessAgeOfDeath ==
    /\ pc = "deceased_age"
    /\ prepared' = process_age_of_death(prepared)
    /\ pc' = "prepared"
    /\ UNCHANGED <<raw, panel>>

\* an empty table gives a frame without columns, and sort_values raises KeyError
CreatePanelDataset ==
    /\ pc = "prepared"
    /\ prepared # {}
    /\ panel' = create_panel_dataset(prepared)
    /\ pc' = "panel"
    /\ UNCHANGED <<raw, prepared>>

InitPanel ==
    /\ raw \in RawTables
    /\ prepared = {}
    /\ panel = <<>>
    /\ pc = "raw"
    /\ EstIdle
    /\ GiniIdle

NextPanel ==
    \/ ProcessDeceasedAge /\ UNCHANGED <<estVars, giniVars>>
    \/ ProcessAgeOfDeath /\ UNCHANGED <<estVars, giniVars>>
    \/ CreatePanelDataset /\ UNCHANGED <<estVars, giniVars>>

SpecPanel == InitPanel /\ [][NextPanel]_vars

PanelRowsOf(m) == {k \in DOMAIN panel : panel[k].mergeid = m}
DeadPeople == {r.mergeid : r \in {q \in prepared : q.is_dead = 1}}
LivingPeople == {r.mergeid : r \in {q \in prepared : q.is_dead = 0}}

\* C10: in the panel, every dead respondent has exactly one row with y = 1,
\* and that row has age_int = deceased_age - 1; every row of a living
\* respondent has y = 0.
C10_DeathLabel ==
    pc = "panel" =>
        /\ \A m \in DeadPeople :
               /\ Cardinality({k \in PanelRowsOf(m) : panel[k].y = 1}) = 1
               /\ \A k \in PanelRowsOf(m) :
                      panel[k].y = 1 => panel[k].age_int = panel[k].deceased_age.value - 1
        /\ \A m \in LivingPeople : \A k \in PanelRowsOf(m) : panel[k].y = 0

\* a dead respondent whose last interview is in the year of the death, beside
\* a living one
C10_Witness ==
    /\ pc = "panel"
    /\ LivingPeople # {}
    /\ \E r \in prepared :
           /\ r.is_dead = 1
           /\ r.deceased_age.value = r.age_int
           /\ Cardinality({q \in prepared : q.mergeid = r.mergeid}) = 2

\* the observed records of respondent m at an age, and its panel rows there
ObservedAt(m, a) == {r \in prepared : r.mergeid = m /\ r.age_int = a}
PanelRowsAt(m, a) == {k \in PanelRowsOf(m) : panel[k].age_int = a}
\* the record r is a row of the panel (its label apart)
KeptInPanel(r) == \E k \in DOMAIN panel : [panel[k] EXCEPT !.y = 0] = r @@ [y |-> 0]
\* at most one record per (respondent, age_int) in the observation table
OneRecordPerAge ==
    \A r \in prepared : \A q \in prepared :
        (r.mergeid = q.mergeid /\ r.age_int = q.age_int) => r = q

\* C11: a row is added at age deceased_age - 1 of a dead respondent only when
\* the respondent has no observed record at that age; every observed record
\* is kept in the panel; and a table with at most one record per (respondent,
\* age_int) gives a panel with at most one row per (respondent, age_int).
C11_ImputedOnlyWhenMissing ==
    pc = "panel" =>
        /\ \A r \in prepared :
               (r.is_dead = 1 /\ Cardinality(PanelRowsAt(r.mergeid, r.deceased_age.value - 1))
                                   > Cardinality(ObservedAt(r.mergeid, r.deceased_age.value - 1)))
                   => ObservedAt(r.mergeid, r.deceased_age.value - 1) = {}
        /\ \A r \in prepared : KeptInPanel(r)
        /\ OneRecordPerAge =>
               \A k \in DOMAIN panel :
                   Cardinality(PanelRowsAt(panel[k].mergeid, panel[k].age_int)) = 1

====
